---- MODULE Spec2Model ----
(***************************************************************************)
(* Model of integrations/git/git_clone.py (git_temp_clone, branch_exists)  *)
(* and of integrations/slack/slack_parallel_pytest/conftest.py (the shared *)
(* counters and the thread header of a parallel test run).                 *)
(*                                                                         *)
(* Strings that the code takes apart (the repository locator) are          *)
(* sequences of one-character strings.  A local path holds one of: nothing,*)
(* a directory that is not a repository, or a repository with local heads, *)
(* remote-tracking references and a checked-out branch.  Commits are       *)
(* numbers; 0 is a commit that exists only locally.                        *)
(***************************************************************************)
EXTENDS Integers, Sequences, FiniteSets, TLC

VARIABLES
    \* ---- git_temp_clone ----
    fs,          \* local path -> what the filesystem holds there
    remote,      \* branch -> tip, for the branches of the remote repository
    remoteDefault, \* the branch a clone checks out
    replay,      \* the Replay singleton: "none", "idle" or "recording"
    serialize,   \* do the callers hold an external lock per local path?
    pc,          \* caller -> position inside git_temp_clone
    src,         \* caller -> the locator passed as `repo`
    path,        \* caller -> repo_path
    branch,      \* caller -> the branch the reuse branch works on
    ops,         \* caller -> the VCS / filesystem / recorder calls made so far
    exc,         \* caller -> the exception that ended the call, or "none"
    result,      \* caller -> the returned path, or <<>> when nothing returned
    pre,         \* caller -> fs[path] when the call started
    remote0,     \* caller -> remote when the call started
    netFailed,   \* caller -> did a clone of this call fail in transport?
    interfered,  \* caller -> did another call delete/reset the path after this call's check?
    lastCall,    \* outcome of the most recent finished call
    remoteMoved, \* did the remote advance since the last call finished?
    ncalls,      \* number of calls started
    \* ---- parallel test run ----
    cache,       \* config.cache: key -> value
    wpc,         \* worker -> position
    cur,         \* worker -> (current_total1, current_total2) read under the lock
    amt,         \* worker -> (amount1, amount2) of the increment in progress
    fdInode,     \* worker -> inode of the lock file it holds open, 0 if none
    lockInode,   \* lock file name -> inode the name refers to, 0 if no such file
    held,        \* set of inodes currently flock()ed
    nextInode,   \* next fresh inode number
    sum1,        \* sum of all amount1 passed to increment
    sum2,        \* sum of all amount2 passed to increment
    nincr,       \* number of increment calls made
    mainpc,      \* position of the main process
    seen,        \* (total1, total2) read by the main process at session finish
    tsv,         \* worker -> the local thread_ts of the fixture call in progress
    wts,         \* worker -> the value its thread_ts fixture returned, "None" before
    posted,      \* the ids of the header messages posted so far
    edited       \* the id of the message the main process edited, "None" if none

gitVars == <<fs, remote, remoteDefault, replay, serialize, pc, src, path, branch,
             ops, exc, result, pre, remote0, netFailed, interfered, lastCall, remoteMoved, ncalls>>
thrVars == <<tsv, wts, posted, edited>>
parVars == <<cache, wpc, cur, amt, fdInode, lockInode, held, nextInode,
             sum1, sum2, nincr, mainpc, seen, thrVars>>
vars == <<gitVars, parVars>>

----------------------------------------------------------------------------
(* Bounds *)

MaxCommit == 2
MaxCalls == 2
MaxIncr == 2

----------------------------------------------------------------------------
(* Strings and paths *)

Slash == "/"

\* The locators callers pass: a URL-like one, one without any "/", and one
\* with a trailing "/".
Sources == { <<"o", "/", "r">>, <<"r">>, <<"r", "/">> }

Callers == {"c1", "c2"}

Branches == {"main", "master", "feature-x"}

\* Mutation of LastSegment: everything before the first "/"
RECURSIVE FirstSegment(_)
FirstSegment(s) ==
    IF s = <<>> THEN <<>>
    ELSE IF s[1] = Slash THEN <<>>
    ELSE <<s[1]>> \o FirstSegment(SubSeq(s, 2, Len(s)))

\* repo.split("/")[-1]: scanning from the right, everything after the last "/"
RECURSIVE LastSegment(_)
LastSegment(s) ==
    IF s = <<>> THEN <<>>
    ELSE IF s[Len(s)] = Slash THEN <<>>
    ELSE Append(LastSegment(SubSeq(s, 1, Len(s) - 1)), s[Len(s)])

TmpRoot == <<"/", "t", "m", "p", "/">>

\* repo_path = f"/tmp/{repo_name}"
RepoPath(s) == TmpRoot \o LastSegment(s)

Paths == { RepoPath(s) : s \in Sources }

----------------------------------------------------------------------------
(* What a local path holds *)

NoRefs == [b \in {} |-> 0]

Absent == [kind |-> "absent", heads |-> NoRefs, origin |-> NoRefs, head |-> "-"]
PlainDir == [kind |-> "dir", heads |-> NoRefs, origin |-> NoRefs, head |-> "-"]
Repository(h, o, b) == [kind |-> "repo", heads |-> h, origin |-> o, head |-> b]

\* os.path.exists(repo_path)
PathExists(st) == st.kind # "absent"

OriginRef(b) ==
    CASE b = "main" -> "origin/main"
      [] b = "master" -> "origin/master"
      [] b = "feature-x" -> "origin/feature-x"

\* Mutation of Refs: remote-tracking references listed by their branch name
RefsShortNames(st) == DOMAIN st.heads \cup DOMAIN st.origin

\* The names in repo.refs: local heads by their short name, remote-tracking
\* references as origin/<branch>.  The repositories considered have no tags.
Refs(st) == DOMAIN st.heads \cup { OriginRef(b) : b \in DOMAIN st.origin }

\* Repo(repo_path): the exception the constructor raises, or "none"
RepoOpen(st) ==
    CASE st.kind = "absent" -> "NoSuchPathError"
      [] st.kind = "dir" -> "InvalidGitRepositoryError"
      [] OTHER -> "none"

\* The body of the try block of branch_exists
BranchLookup(st, b) ==
    IF RepoOpen(st) # "none"
    THEN [exc |-> RepoOpen(st), val |-> FALSE]
    ELSE [exc |-> "none", val |-> b \in Refs(st)]

\* branch_exists: `except GitCommandError` turns that exception, and only
\* that one, into False.
branch_exists(st, b) ==
    LET r == BranchLookup(st, b)
    IN  IF r.exc = "GitCommandError" THEN [exc |-> "none", val |-> FALSE] ELSE r

\* Repo.clone_from(repo, repo_path) against the remote as it is now
Cloned(rem, def) == Repository([b \in {def} |-> rem[def]], rem, def)

\* <branch>.checkout()
CheckedOut(st, b) == [st EXCEPT !.head = b]

\* Mutation of HardReset: the reset leaves the branch where it was
HardResetKeeps(st, b) == st

\* repo.head.reset("origin/<b>", index=True, working_tree=True): the checked
\* out branch is moved to the commit the remote-tracking reference names.
HardReset(st, b) == [st EXCEPT !.heads = [x \in DOMAIN st.heads |->
                                   IF x = st.head THEN st.origin[b] ELSE st.heads[x]]]

\* Tip of the checked-out branch, -1 where there is no repository
TipOf(st) == IF st.kind = "repo" /\ st.head \in DOMAIN st.heads
             THEN st.heads[st.head] ELSE -1

Op(name, ref, p) == [op |-> name, ref |-> ref, path |-> p]

NoCall == [valid |-> FALSE, src |-> <<>>, ok |-> FALSE, path |-> <<>>,
           tip |-> -1, quiet |-> FALSE, net |-> FALSE]

----------------------------------------------------------------------------
(* The parallel test run is idle while git_temp_clone is explored, and      *)
(* the other way round.                                                     *)

Workers == {"gw0", "gw1", "gw2"}

LockFiles == {"slack_thread.lock", "parallel_add_totals.lock"}

TotalKeys == {"parallel_add_total_1", "parallel_add_total_2"}

\* Python's None, as the cache and the fixture hold it
None == "None"

CacheKeys == TotalKeys \cup {"thread_ts"}

\* The cache right after pytest_configure
Cleared == [k \in CacheKeys |-> IF k = "thread_ts" THEN None ELSE 0]

ThreadIdle ==
    /\ tsv = [w \in Workers |-> None]
    /\ wts = [w \in Workers |-> None]
    /\ posted = {}
    /\ edited = None

ParIdle ==
    /\ cache = Cleared
    /\ ThreadIdle
    /\ wpc = [w \in Workers |-> "off"]
    /\ cur = [w \in Workers |-> <<0, 0>>]
    /\ amt = [w \in Workers |-> <<0, 0>>]
    /\ fdInode = [w \in Workers |-> 0]
    /\ lockInode = [f \in LockFiles |-> 0]
    /\ held = {}
    /\ nextInode = 1
    /\ sum1 = 0
    /\ sum2 = 0
    /\ nincr = 0
    /\ mainpc = "off"
    /\ seen = <<0, 0>>

----------------------------------------------------------------------------
(* git_temp_clone *)

\* The repositories a caller may find at the local path before the first
\* call: clones of the remote in which branches of the remote were checked
\* out locally, at the remote's commit (1) or with a local commit on top (0).
InitRepos(rem) ==
    { Repository([b \in H |-> t], rem, hd) :
        H \in (SUBSET DOMAIN rem) \ {{}}, t \in {0, 1}, hd \in Branches }

\* The remote, the local path and the recorder before the first call
InitEnv ==
    /\ remoteDefault \in Branches
    /\ \E present \in SUBSET Branches :
          /\ remoteDefault \in present
          /\ remote = [b \in present |-> 1]
    /\ \E st \in {Absent, PlainDir} \cup InitRepos(remote) :
          /\ st.kind = "repo" => st.head \in DOMAIN st.heads
          /\ fs = [p \in Paths |-> IF p = TmpRoot THEN PlainDir ELSE st]
    /\ replay \in {"none", "idle", "recording"}

InitCallers ==
    /\ pc = [c \in Callers |-> "idle"]
    /\ src = [c \in Callers |-> <<>>]
    /\ path = [c \in Callers |-> <<>>]
    /\ branch = [c \in Callers |-> "-"]
    /\ ops = [c \in Callers |-> <<>>]
    /\ exc = [c \in Callers |-> "none"]
    /\ result = [c \in Callers |-> <<>>]
    /\ pre = [c \in Callers |-> Absent]
    /\ remote0 = [c \in Callers |-> NoRefs]
    /\ netFailed = [c \in Callers |-> FALSE]
    /\ interfered = [c \in Callers |-> FALSE]
    /\ lastCall = NoCall
    /\ remoteMoved = FALSE
    /\ ncalls = 0

\* One caller at a time
Init ==
    /\ InitEnv
    /\ serialize = TRUE
    /\ InitCallers
    /\ ParIdle

InFlight(c) == pc[c] # "idle"

\* Positions between a call's existence check and its last use of the path
AfterCheck == {"chk_main", "chk_master", "checkout", "reset", "rmtree", "clone_fb"}

\* Another call changed path p destructively: every call that has checked
\* the path and not finished with it has been interfered with.
Disturb(c, p) ==
    interfered' = [d \in Callers |->
                     IF d # c /\ path[d] = p /\ pc[d] \in AfterCheck
                     THEN TRUE ELSE interfered[d]]

Raise(c, e) ==
    /\ pc' = [pc EXCEPT ![c] = "raised"]
    /\ exc' = [exc EXCEPT ![c] = e]

\* Mutation of Call: the external lock is not taken
CallUnlocked(c, s) ==
    /\ pc[c] = "idle"
    /\ ncalls < MaxCalls
    /\ pc' = [pc EXCEPT ![c] = "exists"]
    /\ src' = [src EXCEPT ![c] = s]
    /\ path' = [path EXCEPT ![c] = RepoPath(s)]
    /\ branch' = [branch EXCEPT ![c] = "-"]
    /\ ops' = [ops EXCEPT ![c] = <<>>]
    /\ exc' = [exc EXCEPT ![c] = "none"]
    /\ result' = [result EXCEPT ![c] = <<>>]
    /\ pre' = [pre EXCEPT ![c] = fs[RepoPath(s)]]
    /\ remote0' = [remote0 EXCEPT ![c] = remote]
    /\ netFailed' = [netFailed EXCEPT ![c] = FALSE]
    /\ interfered' = [interfered EXCEPT ![c] = FALSE]
    /\ ncalls' = ncalls + 1
    /\ UNCHANGED <<fs, remote, remoteDefault, replay, serialize, lastCall, remoteMoved, parVars>>

\* A caller enters git_temp_clone(s); lines 29-30 compute the path.
Call(c, s) ==
    /\ pc[c] = "idle"
    /\ ncalls < MaxCalls
    /\ serialize => \A d \in Callers : InFlight(d) => path[d] # RepoPath(s)
    /\ pc' = [pc EXCEPT ![c] = "exists"]
    /\ src' = [src EXCEPT ![c] = s]
    /\ path' = [path EXCEPT ![c] = RepoPath(s)]
    /\ branch' = [branch EXCEPT ![c] = "-"]
    /\ ops' = [ops EXCEPT ![c] = <<>>]
    /\ exc' = [exc EXCEPT ![c] = "none"]
    /\ result' = [result EXCEPT ![c] = <<>>]
    /\ pre' = [pre EXCEPT ![c] = fs[RepoPath(s)]]
    /\ remote0' = [remote0 EXCEPT ![c] = remote]
    /\ netFailed' = [netFailed EXCEPT ![c] = FALSE]
    /\ interfered' = [interfered EXCEPT ![c] = FALSE]
    /\ ncalls' = ncalls + 1
    /\ UNCHANGED <<fs, remote, remoteDefault, replay, serialize, lastCall, remoteMoved, parVars>>

\* line 33: if os.path.exists(repo_path)
Exists(c) ==
    /\ pc[c] = "exists"
    /\ pc' = [pc EXCEPT ![c] = IF PathExists(fs[path[c]]) THEN "chk_main" ELSE "clone"]
    /\ UNCHANGED <<fs, remote, remoteDefault, replay, serialize, src, path, branch,
                   ops, exc, result, pre, remote0, netFailed, interfered, lastCall, remoteMoved, ncalls, parVars>>

\* line 35: if branch_exists(repo_path, "main")
CheckMain(c) ==
    /\ pc[c] = "chk_main"
    /\ LET r == branch_exists(fs[path[c]], "main")
       IN  IF r.exc # "none"
           THEN /\ Raise(c, r.exc)
                /\ UNCHANGED branch
           ELSE /\ pc' = [pc EXCEPT ![c] = IF r.val THEN "checkout" ELSE "chk_master"]
                /\ branch' = [branch EXCEPT ![c] = IF r.val THEN "main" ELSE "-"]
                /\ UNCHANGED exc
    /\ UNCHANGED <<fs, remote, remoteDefault, replay, serialize, src, path,
                   ops, result, pre, remote0, netFailed, interfered, lastCall, remoteMoved, ncalls, parVars>>

\* line 42: elif branch_exists(repo_path, "master")
CheckMaster(c) ==
    /\ pc[c] = "chk_master"
    /\ LET r == branch_exists(fs[path[c]], "master")
       IN  IF r.exc # "none"
           THEN /\ Raise(c, r.exc)
                /\ UNCHANGED branch
           ELSE /\ pc' = [pc EXCEPT ![c] = IF r.val THEN "checkout" ELSE "rmtree"]
                /\ branch' = [branch EXCEPT ![c] = IF r.val THEN "master" ELSE "-"]
                /\ UNCHANGED exc
    /\ UNCHANGED <<fs, remote, remoteDefault, replay, serialize, src, path,
                   ops, result, pre, remote0, netFailed, interfered, lastCall, remoteMoved, ncalls, parVars>>

\* lines 37-39 / 44-46: Repo(repo_path); repo.heads[<branch>]; checkout()
Checkout(c) ==
    /\ pc[c] = "checkout"
    /\ LET st == fs[path[c]]
           b == branch[c]
       IN  IF RepoOpen(st) # "none"
           THEN /\ Raise(c, RepoOpen(st))
                /\ UNCHANGED <<fs, ops, interfered>>
           ELSE IF b \notin DOMAIN st.heads
           THEN /\ Raise(c, "IndexError")
                /\ UNCHANGED <<fs, ops, interfered>>
           ELSE /\ fs' = [fs EXCEPT ![path[c]] = CheckedOut(st, b)]
                /\ ops' = [ops EXCEPT ![c] = Append(@, Op("checkout", b, path[c]))]
                /\ pc' = [pc EXCEPT ![c] = "reset"]
                /\ UNCHANGED <<exc, interfered>>
    /\ UNCHANGED <<remote, remoteDefault, replay, serialize, src, path, branch,
                   result, pre, remote0, netFailed, lastCall, remoteMoved, ncalls, parVars>>

\* lines 40 / 47: repo.head.reset("origin/<branch>", index=True, working_tree=True)
Reset(c) ==
    /\ pc[c] = "reset"
    /\ LET st == fs[path[c]]
           b == branch[c]
       IN  /\ ops' = [ops EXCEPT ![c] = Append(@, Op("reset", OriginRef(b), path[c]))]
           /\ IF st.kind # "repo" \/ b \notin DOMAIN st.origin
                 \/ st.head \notin DOMAIN st.heads
              THEN /\ Raise(c, "GitCommandError")
                   /\ UNCHANGED <<fs, interfered>>
              ELSE /\ fs' = [fs EXCEPT ![path[c]] = HardReset(st, b)]
                   /\ pc' = [pc EXCEPT ![c] = "replay"]
                   /\ Disturb(c, path[c])
                   /\ UNCHANGED exc
    /\ UNCHANGED <<remote, remoteDefault, replay, serialize, src, path, branch,
                   result, pre, remote0, netFailed, lastCall, remoteMoved, ncalls, parVars>>

\* line 52: shutil.rmtree(repo_path)
Rmtree(c) ==
    /\ pc[c] = "rmtree"
    /\ ops' = [ops EXCEPT ![c] = Append(@, Op("rmtree", "-", path[c]))]
    /\ IF ~PathExists(fs[path[c]])
       THEN /\ Raise(c, "FileNotFoundError")
            /\ UNCHANGED <<fs, interfered>>
       ELSE /\ fs' = [fs EXCEPT ![path[c]] = Absent]
            /\ pc' = [pc EXCEPT ![c] = "clone_fb"]
            /\ Disturb(c, path[c])
            /\ UNCHANGED exc
    /\ UNCHANGED <<remote, remoteDefault, replay, serialize, src, path, branch,
                   result, pre, remote0, netFailed, lastCall, remoteMoved, ncalls, parVars>>

\* Mutation of CloneFrom: a failed clone is swallowed and the call goes on
CloneFromSwallows(c, netOk) ==
    /\ ops' = [ops EXCEPT ![c] = Append(@, Op("clone", "-", path[c]))]
    /\ IF netOk /\ ~PathExists(fs[path[c]])
       THEN /\ fs' = [fs EXCEPT ![path[c]] = Cloned(remote, remoteDefault)]
            /\ UNCHANGED netFailed
       ELSE /\ netFailed' = [netFailed EXCEPT ![c] = ~netOk]
            /\ UNCHANGED fs
    /\ pc' = [pc EXCEPT ![c] = "replay"]
    /\ UNCHANGED <<remote, remoteDefault, replay, serialize, src, path, branch,
                   result, pre, remote0, interfered, lastCall, exc, remoteMoved, ncalls, parVars>>

\* Repo.clone_from(repo, repo_path): fails when the transport fails or the
\* destination already exists (GitCommandError), and is never retried.
CloneFrom(c, netOk) ==
    /\ ops' = [ops EXCEPT ![c] = Append(@, Op("clone", "-", path[c]))]
    /\ IF netOk /\ ~PathExists(fs[path[c]])
       THEN /\ fs' = [fs EXCEPT ![path[c]] = Cloned(remote, remoteDefault)]
            /\ pc' = [pc EXCEPT ![c] = "replay"]
            /\ UNCHANGED <<exc, netFailed>>
       ELSE /\ Raise(c, "GitCommandError")
            /\ netFailed' = [netFailed EXCEPT ![c] = ~netOk]
            /\ UNCHANGED fs
    /\ UNCHANGED <<remote, remoteDefault, replay, serialize, src, path, branch,
                   result, pre, remote0, interfered, lastCall, remoteMoved, ncalls, parVars>>

\* line 53: the clone of the delete-and-reclone fallback
CloneFallback(c) ==
    /\ pc[c] = "clone_fb"
    /\ \E netOk \in BOOLEAN : CloneFrom(c, netOk)

\* line 57: the clone of the absent-path branch
CloneFresh(c) ==
    /\ pc[c] = "clone"
    /\ \E netOk \in BOOLEAN : CloneFrom(c, netOk)

\* lines 60-63: the recording hook, then return repo_path
Record(c) ==
    /\ pc[c] = "replay"
    /\ IF replay = "recording"
       THEN \E archived \in BOOLEAN :
              /\ ops' = [ops EXCEPT ![c] = Append(@, Op("compress_source", "-", path[c]))]
              /\ IF archived
                 THEN /\ pc' = [pc EXCEPT ![c] = "done"]
                      /\ result' = [result EXCEPT ![c] = path[c]]
                      /\ UNCHANGED exc
                 ELSE /\ Raise(c, "ReplayError")
                      /\ UNCHANGED result
       ELSE /\ pc' = [pc EXCEPT ![c] = "done"]
            /\ result' = [result EXCEPT ![c] = path[c]]
            /\ UNCHANGED <<exc, ops>>
    /\ UNCHANGED <<fs, remote, remoteDefault, replay, serialize, src, path, branch,
                   pre, remote0, netFailed, interfered, lastCall, remoteMoved, ncalls, parVars>>

\* The call is over: the caller has the path or the exception, and the
\* locals of the call are gone.
Return(c) ==
    /\ pc[c] \in {"done", "raised"}
    /\ pc' = [pc EXCEPT ![c] = "idle"]
    /\ lastCall' = [valid |-> TRUE, src |-> src[c], ok |-> pc[c] = "done",
                    path |-> result[c], tip |-> TipOf(fs[path[c]]),
                    quiet |-> remote0[c] = remote,
                    net |-> netFailed[c]]
    /\ remoteMoved' = FALSE
    /\ src' = [src EXCEPT ![c] = <<>>]
    /\ path' = [path EXCEPT ![c] = <<>>]
    /\ branch' = [branch EXCEPT ![c] = "-"]
    /\ ops' = [ops EXCEPT ![c] = <<>>]
    /\ exc' = [exc EXCEPT ![c] = "none"]
    /\ result' = [result EXCEPT ![c] = <<>>]
    /\ pre' = [pre EXCEPT ![c] = Absent]
    /\ remote0' = [remote0 EXCEPT ![c] = NoRefs]
    /\ netFailed' = [netFailed EXCEPT ![c] = FALSE]
    /\ interfered' = [interfered EXCEPT ![c] = FALSE]
    /\ UNCHANGED <<fs, remote, remoteDefault, replay, serialize, ncalls, parVars>>

\* Somebody pushes a new commit to a branch of the remote.
RemoteAdvance(b) ==
    /\ b \in DOMAIN remote
    /\ \A x \in DOMAIN remote : remote[x] < MaxCommit
    /\ \E n \in 1..MaxCommit :
          /\ \A x \in DOMAIN remote : remote[x] < n
          /\ \E x \in DOMAIN remote : remote[x] = n - 1
          /\ remote' = [remote EXCEPT ![b] = n]
    /\ remoteMoved' = TRUE
    /\ UNCHANGED <<fs, remoteDefault, replay, serialize, pc, src, path, branch,
                   ops, exc, result, pre, remote0, netFailed, interfered, lastCall,
                   ncalls, parVars>>

\* The steps of one caller
Step(c) ==
    \/ \E s \in Sources : Call(c, s)
    \/ Exists(c)
    \/ CheckMain(c)
    \/ CheckMaster(c)
    \/ Checkout(c)
    \/ Reset(c)
    \/ Rmtree(c)
    \/ CloneFallback(c)
    \/ CloneFresh(c)
    \/ Record(c)
    \/ Return(c)

Next ==
    \/ Step("c1")
    \/ \E b \in Branches : RemoteAdvance(b)

Spec == Init /\ [][Next]_vars

----------------------------------------------------------------------------
(* Properties of git_temp_clone, one caller at a time (Spec) *)

Finished(c) == pc[c] \in {"done", "raised"}

OpNames(c) == { ops[c][i].op : i \in 1..Len(ops[c]) }

Count(c, name) == Cardinality({ i \in 1..Len(ops[c]) : ops[c][i].op = name })

\* n is what follows the last "/" of s (all of s when it has none)
IsLastSegment(s, n) ==
    \E i \in 0..Len(s) :
        /\ n = SubSeq(s, i + 1, Len(s))
        /\ i = 0 \/ s[i] = "/"
        /\ \A j \in 1..Len(n) : n[j] # "/"

\* C1: after a successful call (the remote not having moved during the call
\* itself), the local path is a repository and the tip of its checked-out
\* branch is the tip that branch has on the remote now.
C1_TipMatchesRemote ==
    \A c \in Callers :
        (pc[c] = "done" /\ remote0[c] = remote) =>
            /\ fs[path[c]].kind = "repo"
            /\ fs[path[c]].head \in DOMAIN remote
            /\ TipOf(fs[path[c]]) = remote[fs[path[c]].head]

\* C2: a call that found a directory that is not a repository at the local
\* path is not ended by an inspection error; it deletes the path and clones.
C2_InspectionFailureRoutesToReclone ==
    \A c \in Callers :
        (Finished(c) /\ pre[c].kind = "dir") =>
            /\ exc[c] \notin {"InvalidGitRepositoryError", "NoSuchPathError"}
            /\ Len(ops[c]) >= 2
            /\ ops[c][1].op = "rmtree"
            /\ ops[c][2].op = "clone"

NeitherResolves(st) ==
    st.kind = "repo" /\ "main" \notin DOMAIN st.heads /\ "master" \notin DOMAIN st.heads

\* C3: a call that found a repository with neither main nor master makes no
\* checkout and no reset; it deletes the path, the path is gone before the
\* clone, and the clone is the next thing it does.
C3_DeleteThenClone ==
    \A c \in Callers :
        NeitherResolves(pre[c]) =>
            /\ OpNames(c) \cap {"checkout", "reset"} = {}
            /\ pc[c] = "clone_fb" =>
                  /\ ops[c] = <<Op("rmtree", "-", path[c])>>
                  /\ fs[path[c]] = Absent
            /\ (pc[c] = "replay" \/ Finished(c)) =>
                  /\ Len(ops[c]) >= 2
                  /\ ops[c][1] = Op("rmtree", "-", path[c])
                  /\ ops[c][2] = Op("clone", "-", path[c])
                  /\ Count(c, "rmtree") = 1
                  /\ Count(c, "clone") = 1

C3_Witness ==
    \E c \in Callers :
        /\ pc[c] = "done"
        /\ NeitherResolves(pre[c])
        /\ DOMAIN pre[c].heads = {"feature-x"}
        /\ "main" \in DOMAIN pre[c].origin

Preferred(st) == IF "main" \in DOMAIN st.heads THEN "main" ELSE "master"

Resolves(st) ==
    st.kind = "repo" /\ ("main" \in DOMAIN st.heads \/ "master" \in DOMAIN st.heads)

\* C4: a call that found a repository with main or master makes no delete
\* and no clone; it checks out main when main is there, else master, then
\* resets to origin/<that branch>, and the branch ends at that commit.
C4_ReuseInPlace ==
    \A c \in Callers :
        Resolves(pre[c]) =>
            /\ OpNames(c) \cap {"rmtree", "clone"} = {}
            /\ pc[c] = "reset" => ops[c] = <<Op("checkout", Preferred(pre[c]), path[c])>>
            /\ (pc[c] = "replay" \/ Finished(c)) =>
                  /\ Len(ops[c]) >= 2
                  /\ ops[c][1] = Op("checkout", Preferred(pre[c]), path[c])
                  /\ ops[c][2] = Op("reset", OriginRef(Preferred(pre[c])), path[c])
                  /\ Count(c, "checkout") = 1
                  /\ Count(c, "reset") = 1
                  /\ fs[path[c]].head = Preferred(pre[c])
                  /\ TipOf(fs[path[c]]) = pre[c].origin[Preferred(pre[c])]

C4_Witness ==
    \E c \in Callers :
        /\ pc[c] = "done"
        /\ DOMAIN pre[c].heads = {"main", "master"}
        /\ pre[c].head = "master"
        /\ pre[c].heads["main"] = 0
        /\ fs[path[c]].head = "main"

\* C5: a call returns /tmp/<text after the last "/" of the locator>; when
\* nothing was at that path it makes one clone into it and no delete,
\* checkout or reset.
C5_CloneWhenAbsent ==
    \A c \in Callers :
        /\ pc[c] = "done" =>
              /\ Len(result[c]) >= Len(TmpRoot)
              /\ SubSeq(result[c], 1, Len(TmpRoot)) = TmpRoot
              /\ IsLastSegment(src[c], SubSeq(result[c], Len(TmpRoot) + 1, Len(result[c])))
        /\ (InFlight(c) /\ pc[c] # "exists" /\ pre[c] = Absent) =>
              /\ OpNames(c) \cap {"rmtree", "checkout", "reset"} = {}
              /\ Count(c, "clone") <= 1
              /\ (pc[c] = "replay" \/ pc[c] = "done") =>
                    /\ ops[c][1] = Op("clone", "-", path[c])
                    /\ fs[path[c]] = Cloned(remote0[c], remoteDefault)
                         \/ remote0[c] # remote

C5_Witness ==
    \E c \in Callers :
        /\ pc[c] = "done"
        /\ pre[c] = Absent
        /\ src[c] = <<"o", "/", "r">>
        /\ result[c] = <<"/", "t", "m", "p", "/", "r">>

\* C6: a call whose last step was the recorder's compress_source has
\* returned the path, whether or not the archiving worked.
C6_ArchiveFailureIgnored ==
    \A c \in Callers :
        (Finished(c) /\ Len(ops[c]) > 0 /\ ops[c][Len(ops[c])].op = "compress_source") =>
            /\ pc[c] = "done"
            /\ result[c] = path[c]

\* C7: two calls in succession on the same source, the remote unchanged
\* from the start of the first to the end of the second, no transport
\* failure and no recorder involved: both succeed, with the same path and
\* the same commit checked out.
C7_Idempotent ==
    \A c \in Callers :
        (/\ Finished(c)
         /\ lastCall.valid
         /\ lastCall.src = src[c]
         /\ lastCall.quiet
         /\ ~remoteMoved
         /\ remote0[c] = remote
         /\ ~lastCall.net
         /\ ~netFailed[c]
         /\ replay # "recording") =>
            /\ lastCall.ok
            /\ pc[c] = "done"
            /\ lastCall.path = result[c]
            /\ lastCall.tip = TipOf(fs[path[c]])

\* C8: once a clone of a call has failed, the call is over: the failed
\* clone is its last operation and its only clone, the recorder was not
\* called, nothing is returned and the GitCommandError is what the caller
\* gets.
C8_CloneFailurePropagates ==
    /\ \A c \in Callers :
          netFailed[c] =>
              /\ pc[c] = "raised"
              /\ exc[c] = "GitCommandError"
              /\ result[c] = <<>>
              /\ ops[c][Len(ops[c])].op = "clone"
              /\ Count(c, "clone") = 1
              /\ "compress_source" \notin OpNames(c)
    /\ lastCall.net => ~lastCall.ok /\ lastCall.path = <<>>

C8_Witness ==
    \E c \in Callers :
        /\ netFailed[c]
        /\ Len(ops[c]) = 2
        /\ ops[c][1].op = "rmtree"
        /\ replay = "recording"

----------------------------------------------------------------------------
(* Two callers, with or without an external lock per local path (SpecConc) *)

InitConc ==
    /\ InitEnv
    /\ serialize \in BOOLEAN
    /\ InitCallers
    /\ ParIdle

\* The remote stands still here: the races are between the callers.
NextConc == \E c \in Callers : Step(c)

SpecConc == InitConc /\ [][NextConc]_vars

\* Two calls saw nothing at the same path and both are about to clone into it
BothCloning ==
    \E c, d \in Callers :
        /\ c # d
        /\ path[c] = path[d]
        /\ pc[c] = "clone"
        /\ pc[d] = "clone"

\* A call's path was deleted or reset by another call after the call's
\* existence check and before it was done with the repository
Interfered == \E c \in Callers : interfered[c]

\* A clone that failed although the transport worked: the destination was
\* already there
CloneCollision(c) ==
    /\ pc[c] = "raised"
    /\ ops[c] # <<>>
    /\ ops[c][Len(ops[c])].op = "clone"
    /\ ~netFailed[c]

\* C9: when the calls for one path are serialized, no two calls are about
\* to clone into the same destination, no call has its path deleted or reset
\* under it, and no call fails because the path appeared or vanished.
C9_SerializedIsRaceFree ==
    serialize =>
        /\ ~BothCloning
        /\ ~Interfered
        /\ \A c \in Callers :
              /\ ~CloneCollision(c)
              /\ exc[c] \notin {"NoSuchPathError", "FileNotFoundError", "IndexError"}

\* C9: without the lock, two calls are about to clone into one destination
C9_Witness == ~serialize /\ BothCloning

\* C9: without the lock, a call's path is deleted or reset under it
C9_InterferenceReached == ~serialize /\ Interfered

----------------------------------------------------------------------------
(* The parallel test run of slack_parallel_pytest/conftest.py (SpecPar).    *)
(* config.cache is a directory shared by the main process and the workers; *)
(* a FileLock is an flock on the open lock file, that is on its inode.      *)

GitIdle ==
    /\ remoteDefault = "main"
    /\ remote = [b \in {"main"} |-> 1]
    /\ fs = [p \in Paths |-> IF p = TmpRoot THEN PlainDir ELSE Absent]
    /\ replay = "none"
    /\ serialize = TRUE
    /\ InitCallers

\* The amounts the tests pass to increment
Amounts == { <<1, 2>>, <<10, 20>> }

\* Before the run the cache holds what an earlier run left in it.
InitPar ==
    /\ GitIdle
    /\ \E t \in {0, 1} :
          cache = [k \in CacheKeys |->
                     IF k = "thread_ts" THEN (IF t = 0 THEN None ELSE "old") ELSE t]
    /\ ThreadIdle
    /\ wpc = [w \in Workers |-> "off"]
    /\ cur = [w \in Workers |-> <<0, 0>>]
    /\ amt = [w \in Workers |-> <<0, 0>>]
    /\ fdInode = [w \in Workers |-> 0]
    /\ lockInode = [f \in LockFiles |-> 0]
    /\ held = {}
    /\ nextInode = 1
    /\ sum1 = 0
    /\ sum2 = 0
    /\ nincr = 0
    /\ mainpc = "configure"
    /\ seen = <<0, 0>>

\* Workers inside the `with FileLock("parallel_add_totals.lock")` block
InLocked == {"read1", "read2", "write1", "write2", "release"}

\* pytest_configure in the main process, before any worker exists
MainConfigure ==
    /\ mainpc = "configure"
    /\ cache' = Cleared
    /\ mainpc' = "running"
    /\ UNCHANGED <<wpc, cur, amt, fdInode, lockInode, held, nextInode,
                   sum1, sum2, nincr, seen, gitVars, thrVars>>

\* pytest_configure in a worker, line 13: config.cache.set("parallel_add_total_1", 0)
WorkerConfigure1(w) ==
    /\ mainpc = "running"
    /\ wpc[w] = "off"
    /\ cache' = [cache EXCEPT !["parallel_add_total_1"] = 0]
    /\ wpc' = [wpc EXCEPT ![w] = "configure2"]
    /\ UNCHANGED <<cur, amt, fdInode, lockInode, held, nextInode,
                   sum1, sum2, nincr, mainpc, seen, gitVars, thrVars>>

\* pytest_configure in a worker, line 14: config.cache.set("parallel_add_total_2", 0)
WorkerConfigure2(w) ==
    /\ wpc[w] = "configure2"
    /\ cache' = [cache EXCEPT !["parallel_add_total_2"] = 0]
    /\ wpc' = [wpc EXCEPT ![w] = "configure3"]
    /\ UNCHANGED <<cur, amt, fdInode, lockInode, held, nextInode,
                   sum1, sum2, nincr, mainpc, seen, gitVars, thrVars>>

\* pytest_configure in a worker, line 16: config.cache.set("thread_ts", None)
WorkerConfigure3(w) ==
    /\ wpc[w] = "configure3"
    /\ cache' = [cache EXCEPT !["thread_ts"] = None]
    /\ wpc' = [wpc EXCEPT ![w] = "ready"]
    /\ UNCHANGED <<cur, amt, fdInode, lockInode, held, nextInode,
                   sum1, sum2, nincr, mainpc, seen, gitVars, thrVars>>

\* A test on worker w calls increment(amount1, amount2)
IncrementCall(w, a) ==
    /\ wpc[w] = "ready"
    /\ nincr < MaxIncr
    /\ amt' = [amt EXCEPT ![w] = a]
    /\ sum1' = sum1 + a[1]
    /\ sum2' = sum2 + a[2]
    /\ nincr' = nincr + 1
    /\ wpc' = [wpc EXCEPT ![w] = "acquire"]
    /\ UNCHANGED <<cache, cur, fdInode, lockInode, held, nextInode,
                   mainpc, seen, gitVars, thrVars>>

\* line 36, FileLock.acquire: open the lock file, creating it when the name
\* does not exist, and flock the descriptor; while another descriptor holds
\* the lock on that inode the worker keeps polling.
Acquire(w) ==
    /\ wpc[w] = "acquire"
    /\ LET f == "parallel_add_totals.lock"
           i == IF lockInode[f] = 0 THEN nextInode ELSE lockInode[f]
       IN  /\ i \notin held
           /\ held' = held \cup {i}
           /\ fdInode' = [fdInode EXCEPT ![w] = i]
           /\ lockInode' = [lockInode EXCEPT ![f] = i]
           /\ nextInode' = IF lockInode[f] = 0 THEN nextInode + 1 ELSE nextInode
    /\ wpc' = [wpc EXCEPT ![w] = "read1"]
    /\ UNCHANGED <<cache, cur, amt, sum1, sum2, nincr, mainpc, seen, gitVars, thrVars>>

\* line 37: current_total1 = cache.get("parallel_add_total_1", 0)
Read1(w) ==
    /\ wpc[w] = "read1"
    /\ cur' = [cur EXCEPT ![w] = <<cache["parallel_add_total_1"], @[2]>>]
    /\ wpc' = [wpc EXCEPT ![w] = "read2"]
    /\ UNCHANGED <<cache, amt, fdInode, lockInode, held, nextInode,
                   sum1, sum2, nincr, mainpc, seen, gitVars, thrVars>>

\* line 38: current_total2 = cache.get("parallel_add_total_2", 0)
Read2(w) ==
    /\ wpc[w] = "read2"
    /\ cur' = [cur EXCEPT ![w] = <<@[1], cache["parallel_add_total_2"]>>]
    /\ wpc' = [wpc EXCEPT ![w] = "write1"]
    /\ UNCHANGED <<cache, amt, fdInode, lockInode, held, nextInode,
                   sum1, sum2, nincr, mainpc, seen, gitVars, thrVars>>

\* lines 39, 41: cache.set("parallel_add_total_1", current_total1 + amount1)
Write1(w) ==
    /\ wpc[w] = "write1"
    /\ cache' = [cache EXCEPT !["parallel_add_total_1"] = cur[w][1] + amt[w][1]]
    /\ wpc' = [wpc EXCEPT ![w] = "write2"]
    /\ UNCHANGED <<cur, amt, fdInode, lockInode, held, nextInode,
                   sum1, sum2, nincr, mainpc, seen, gitVars, thrVars>>

\* lines 40, 42: cache.set("parallel_add_total_2", current_total2 + amount2)
Write2(w) ==
    /\ wpc[w] = "write2"
    /\ cache' = [cache EXCEPT !["parallel_add_total_2"] = cur[w][2] + amt[w][2]]
    /\ wpc' = [wpc EXCEPT ![w] = "release"]
    /\ UNCHANGED <<cur, amt, fdInode, lockInode, held, nextInode,
                   sum1, sum2, nincr, mainpc, seen, gitVars, thrVars>>

\* end of the with block: FileLock.release unlocks and closes the descriptor
Release(w) ==
    /\ wpc[w] = "release"
    /\ held' = held \ {fdInode[w]}
    /\ fdInode' = [fdInode EXCEPT ![w] = 0]
    /\ cur' = [cur EXCEPT ![w] = <<0, 0>>]
    /\ amt' = [amt EXCEPT ![w] = <<0, 0>>]
    /\ wpc' = [wpc EXCEPT ![w] = "ready"]
    /\ UNCHANGED <<cache, lockInode, nextInode, sum1, sum2, nincr,
                   mainpc, seen, gitVars, thrVars>>

\* pytest_sessionfinish on a worker: it has workerinput, so only lines 61-64
\* run: every lock file that exists is removed.
WorkerFinish(w) ==
    /\ wpc[w] = "ready"
    /\ lockInode' = [f \in LockFiles |-> 0]
    /\ wpc' = [wpc EXCEPT ![w] = "finished"]
    /\ UNCHANGED <<cache, cur, amt, fdInode, held, nextInode,
                   sum1, sum2, nincr, mainpc, seen, gitVars, thrVars>>

\* pytest_sessionfinish on the main process, after the workers are gone:
\* lines 49-51 read thread_ts and the totals, lines 53-59 edit the message
\* thread_ts names when it is not None, lines 61-64 remove the lock files.
MainFinish ==
    /\ mainpc = "running"
    /\ \A w \in Workers : wpc[w] \in {"off", "finished"}
    /\ seen' = <<cache["parallel_add_total_1"], cache["parallel_add_total_2"]>>
    /\ lockInode' = [f \in LockFiles |-> 0]
    /\ edited' = cache["thread_ts"]
    /\ mainpc' = "finished"
    /\ UNCHANGED <<cache, wpc, cur, amt, fdInode, held, nextInode,
                   sum1, sum2, nincr, gitVars, tsv, wts, posted>>

\* The ids Slack gives to the header messages, in the order of posting
MsgIds == <<"ts1", "ts2", "ts3">>

\* The first test of worker w that asks for thread_ts: the session-scoped
\* fixture runs once per worker.
ThreadTsCall(w) ==
    /\ wpc[w] = "ready"
    /\ wts[w] = None
    /\ wpc' = [wpc EXCEPT ![w] = "ts_acquire"]
    /\ UNCHANGED <<cache, cur, amt, fdInode, lockInode, held, nextInode,
                   sum1, sum2, nincr, mainpc, seen, gitVars, thrVars>>

\* line 22, FileLock(lock_file).acquire on slack_thread.lock
ThreadTsAcquire(w) ==
    /\ wpc[w] = "ts_acquire"
    /\ LET f == "slack_thread.lock"
           i == IF lockInode[f] = 0 THEN nextInode ELSE lockInode[f]
       IN  /\ i \notin held
           /\ held' = held \cup {i}
           /\ fdInode' = [fdInode EXCEPT ![w] = i]
           /\ lockInode' = [lockInode EXCEPT ![f] = i]
           /\ nextInode' = IF lockInode[f] = 0 THEN nextInode + 1 ELSE nextInode
    /\ wpc' = [wpc EXCEPT ![w] = "ts_read"]
    /\ UNCHANGED <<cache, cur, amt, sum1, sum2, nincr, mainpc, seen,
                   gitVars, thrVars>>

\* lines 23-24: thread_ts = cache.get("thread_ts", None); if thread_ts is None
ThreadTsRead(w) ==
    /\ wpc[w] = "ts_read"
    /\ tsv' = [tsv EXCEPT ![w] = cache["thread_ts"]]
    /\ wpc' = [wpc EXCEPT ![w] = IF cache["thread_ts"] = None THEN "ts_post"
                                                              ELSE "ts_release"]
    /\ UNCHANGED <<cache, cur, amt, fdInode, lockInode, held, nextInode,
                   sum1, sum2, nincr, mainpc, seen, gitVars, wts, posted, edited>>

\* lines 26-28: thread_ts = slack.send_message("eval-results", header)
ThreadTsPost(w) ==
    /\ wpc[w] = "ts_post"
    /\ LET id == MsgIds[Cardinality(posted) + 1]
       IN  /\ posted' = posted \cup {id}
           /\ tsv' = [tsv EXCEPT ![w] = id]
    /\ wpc' = [wpc EXCEPT ![w] = "ts_store"]
    /\ UNCHANGED <<cache, cur, amt, fdInode, lockInode, held, nextInode,
                   sum1, sum2, nincr, mainpc, seen, gitVars, wts, edited>>

\* line 29: cache.set("thread_ts", thread_ts)
ThreadTsStore(w) ==
    /\ wpc[w] = "ts_store"
    /\ cache' = [cache EXCEPT !["thread_ts"] = tsv[w]]
    /\ wpc' = [wpc EXCEPT ![w] = "ts_release"]
    /\ UNCHANGED <<cur, amt, fdInode, lockInode, held, nextInode,
                   sum1, sum2, nincr, mainpc, seen, gitVars, thrVars>>

\* line 30: return thread_ts, leaving the with block releases the lock
ThreadTsReturn(w) ==
    /\ wpc[w] = "ts_release"
    /\ held' = held \ {fdInode[w]}
    /\ fdInode' = [fdInode EXCEPT ![w] = 0]
    /\ wts' = [wts EXCEPT ![w] = tsv[w]]
    /\ tsv' = [tsv EXCEPT ![w] = None]
    /\ wpc' = [wpc EXCEPT ![w] = "ready"]
    /\ UNCHANGED <<cache, cur, amt, lockInode, nextInode, sum1, sum2, nincr,
                   mainpc, seen, gitVars, posted, edited>>

NextPar ==
    \/ MainConfigure
    \/ \E w \in Workers : WorkerConfigure1(w)
    \/ \E w \in Workers : WorkerConfigure2(w)
    \/ \E w \in Workers : WorkerConfigure3(w)
    \/ \E w \in Workers : ThreadTsCall(w)
    \/ \E w \in Workers : ThreadTsAcquire(w)
    \/ \E w \in Workers : ThreadTsRead(w)
    \/ \E w \in Workers : ThreadTsPost(w)
    \/ \E w \in Workers : ThreadTsStore(w)
    \/ \E w \in Workers : ThreadTsReturn(w)
    \/ \E w \in Workers, a \in Amounts : IncrementCall(w, a)
    \/ \E w \in Workers : Acquire(w)
    \/ \E w \in Workers : Read1(w)
    \/ \E w \in Workers : Read2(w)
    \/ \E w \in Workers : Write1(w)
    \/ \E w \in Workers : Write2(w)
    \/ \E w \in Workers : Release(w)
    \/ \E w \in Workers : WorkerFinish(w)
    \/ MainFinish

SpecPar == InitPar /\ [][NextPar]_vars

\* At most one worker is inside the locked read-modify-write section
MutualExclusion ==
    \A v, w \in Workers : (v # w /\ wpc[v] \in InLocked) => wpc[w] \notin InLocked

\* The totals the main process reads at session finish are the sums of the
\* amounts passed to increment
TotalsComplete == mainpc = "finished" => seen = <<sum1, sum2>>

\* C10: no increment is lost and no two workers are in the locked section
\* together, whatever the order of worker start-up, increments and worker
\* session finish.
C10_NoLostIncrement == TotalsComplete /\ MutualExclusion

\* The header was posted at most once
HeaderPostedOnce == Cardinality(posted) <= 1

\* The workers whose fixture has returned all hold the id of a posted header,
\* and the same one
SameThreadEverywhere ==
    \A v, w \in Workers :
        wts[v] # None =>
            /\ wts[v] \in posted
            /\ wts[w] # None => wts[w] = wts[v]

\* At session finish the main process edits the header the workers hold
MainEditsHeader ==
    (mainpc = "finished" /\ posted # {}) =>
        /\ edited \in posted
        /\ \A w \in Workers : wts[w] # None => wts[w] = edited

\* C11: across all workers the thread header is posted at most once, every
\* worker's thread_ts fixture returns the id of that one header, and the
\* main process edits that message at session finish.
C11_HeaderPostedOnce == HeaderPostedOnce /\ SameThreadEverywhere /\ MainEditsHeader

====
